---- MODULE Spec2Model ----
(***************************************************************************)
(* Model of the tokenizer (src/utils/token.rs, src/utils/token/groups.rs)  *)
(* and of the patch formatter (src/patch/format.rs) of diffy.              *)
(*                                                                         *)
(* A text is a sequence of bytes.  A byte is written as a string: the      *)
(* ASCII characters stand for themselves and "C3", "A9" are the two bytes  *)
(* of the UTF-8 encoding of U+00E9 (an alphabetic, two-byte character).    *)
(* Byte positions are 0-based as in Rust; sequences are 1-based.           *)
(***************************************************************************)
EXTENDS Integers, Sequences, FiniteSets, TLC

\* ------------------------------------------------------------------ bounds
\* Longest tokenizer input, in characters.
MaxChars == 4
\* Cap on the tokens collected from one iterator (an iterator whose boundary
\* function returns Some(0) never ends).
MaxToks == 6

\* ------------------------------------------------------------- characters
NL == "\n"
\* The characters of the tokenizer inputs, each named by its first byte.
Chars == {"1", ".", "a", "_", " ", NL, "$", "C3"}
\* Option<usize>::None
None == -1
\* pos -= 1 on a usize that is 0
Underflow == -2

\* char::len_utf8, by the character's first byte
len_utf8(c) == IF c = "C3" THEN 2 ELSE 1
\* The UTF-8 encoding of a character
Utf8(c) == IF c = "C3" THEN <<"C3", "A9">> ELSE <<c>>
\* A byte that continues a multi-byte character
IsContinuation(b) == b = "A9"

is_numeric(c) == c = "1"
is_alphanumeric(c) == c \in {"a", "1", "C3"}
is_punctuation_connector(c) == c = "_"
is_whitespace(c) == c \in {" ", NL}

\* str::is_char_boundary(pos)
is_char_boundary(s, pos) ==
    \/ pos = 0
    \/ pos = Len(s)
    \/ pos > 0 /\ pos < Len(s) /\ ~IsContinuation(s[pos + 1])

\* s[pos..].chars().next(): the character whose first byte is at pos
CharAt(s, pos) == IF pos >= 0 /\ pos < Len(s) THEN s[pos + 1] ELSE "none"

\* s.split_at(end)
SplitHead(s, end) == SubSeq(s, 1, end)
SplitTail(s, end) == SubSeq(s, end + 1, Len(s))

RECURSIVE Concat(_)
Concat(ss) == IF ss = <<>> THEN <<>> ELSE Head(ss) \o Concat(Tail(ss))

RECURSIVE Encode(_)
Encode(cs) == IF cs = <<>> THEN <<>> ELSE Utf8(Head(cs)) \o Encode(Tail(cs))

\* ------------------------------------------------------------- groups.rs
Groupers == <<"Number", "AlphaNumeric", "Whitespace">>

belongs(g, c) ==
    CASE g = "Number" -> is_numeric(c) \/ c = "."
      [] g = "AlphaNumeric" -> is_alphanumeric(c) \/ is_punctuation_connector(c)
      [] g = "Whitespace" -> is_whitespace(c)

start(g, c) == IF g = "Number" THEN is_numeric(c) ELSE belongs(g, c)

\* Grouping::end, by default the membership predicate; Number overrides it.
\* (EndKeepsDots: Number without its override, which keeps trailing dots.)
EndKeepsDots(g, c) == belongs(g, c)
end(g, c) == IF g = "Number" THEN is_numeric(c) ELSE belongs(g, c)

\* -------------------------------------------------------------- token.rs
\* str::find(pat) for a one-byte pattern: byte index of the first match
RECURSIVE FindFrom(_, _, _)
FindFrom(s, b, pos) ==
    IF pos >= Len(s) THEN None
    ELSE IF s[pos + 1] = b THEN pos
    ELSE FindFrom(s, b, pos + 1)
find(s, b) == FindFrom(s, b, 0)

\* s.find(|c: char| !grouper.belongs(c)): walks the characters
RECURSIVE FindNotBelongs(_, _, _)
FindNotBelongs(s, g, pos) ==
    IF pos >= Len(s) THEN None
    ELSE IF ~belongs(g, CharAt(s, pos)) THEN pos
    ELSE FindNotBelongs(s, g, pos + len_utf8(CharAt(s, pos)))

\* the inner loop of GroupIter's closure: pos -= 1 until a char boundary
RECURSIVE StepBack(_, _)
StepBack(s, pos) ==
    IF pos <= 0 THEN Underflow
    ELSE IF is_char_boundary(s, pos - 1) THEN pos - 1
    ELSE StepBack(s, pos - 1)

\* the outer loop: walk back to the last character that may end the group.
\* "break" (no character at pos) is reported as None: the next grouper is tried.
RECURSIVE WalkBack(_, _, _)
WalkBack(s, g, pos) ==
    LET p == StepBack(s, pos) IN
    IF p = Underflow THEN Underflow
    ELSE IF CharAt(s, p) = "none" THEN None
    ELSE IF end(g, CharAt(s, p)) THEN p + len_utf8(CharAt(s, p))
    ELSE WalkBack(s, g, p)

\* the for loop over the groupers, from grouper number i on
RECURSIVE TryGroupers(_, _)
TryGroupers(s, i) ==
    IF i > Len(Groupers) THEN len_utf8(CharAt(s, 0))
    ELSE IF ~start(Groupers[i], CharAt(s, 0)) THEN TryGroupers(s, i + 1)
    ELSE LET f == FindNotBelongs(s, Groupers[i], 0)
             r == WalkBack(s, Groupers[i], IF f = None THEN Len(s) ELSE f)
         IN IF r = None THEN TryGroupers(s, i + 1) ELSE r

\* the boundary closure of GroupIter::new
GroupBoundary(s) == IF s = <<>> THEN None ELSE TryGroupers(s, 1)

\* the boundary closure of LineIter::new: one past the next "\n".
\* (LineBoundaryAtNewline: the same without the + 1.)
LineBoundaryAtNewline(s) == find(s, NL)
LineBoundary(s) == IF find(s, NL) = None THEN None ELSE find(s, NL) + 1

\* the boundary closure tests::test_lines hands to TokenIter::new
TestLinesBoundary(s) == find(s, NL)

Boundary(m, s) ==
    CASE m = "LineIter" -> LineBoundary(s)
      [] m = "GroupIter" -> GroupBoundary(s)
      [] m = "test_lines" -> TestLinesBoundary(s)

\* GroupIter::new(text).collect(): the word-groups of a text, as
\* Classifier::classify_groups hands them to the formatter
RECURSIVE Groups(_)
Groups(s) ==
    IF s = <<>> THEN <<>>
    ELSE LET idx == GroupBoundary(s)
             e == IF idx = None \/ idx = Underflow THEN Len(s) ELSE idx
         IN <<SplitHead(s, e)>> \o Groups(SplitTail(s, e))

\* ------------------------------------------------------- patch/format.rs
\* What a rendering writes is a sequence of atoms [k, s]:
\*   k = "esc"  a styling escape sequence (Style::prefix / Style::suffix)
\*   k = "sign" the marker character at the start of a body line
\*   k = "txt"  one byte of text borrowed from the hunk
\*   k = "ctx"  the section label of the hunk (function_context)
\*   k = "lit"  a literal of the format
Atom(kind, str) == [k |-> kind, s |-> str]

RECURSIVE Txt(_)
Txt(bytes) == IF bytes = <<>> THEN <<>> ELSE <<Atom("txt", Head(bytes))>> \o Txt(Tail(bytes))

NO_NEWLINE_AT_EOF == Atom("lit", "\\ No newline at end of file")
Newline == Atom("lit", NL)

\* PatchFormatter::new: context and function_context are Style::new(), whose
\* prefix and suffix are empty; the others are colours
Plain(style) == style \in {"context", "function_context"}
prefix(style) == IF Plain(style) THEN <<>> ELSE <<Atom("esc", style)>>
suffix(style) == IF Plain(style) THEN <<>> ELSE <<Atom("esc", "reset")>>
\* Style::paint(s) as Display
paint(style, atoms) == prefix(style) \o atoms \o suffix(style)

ends_with_newline(t) == t # <<>> /\ t[Len(t)] = NL

sign(line) ==
    CASE line.kind = "Context" -> " "
      [] line.kind = "Delete" -> "-"
      [] line.kind = "Insert" -> "+"
style(line) ==
    CASE line.kind = "Context" -> "context"
      [] line.kind = "Delete" -> "delete"
      [] line.kind = "Insert" -> "insert"

\* if !line.ends_with('\n') { writeln!(); writeln!(NO_NEWLINE_AT_EOF) }
Marker(line) ==
    IF ~ends_with_newline(line.text)
    THEN <<Newline, NO_NEWLINE_AT_EOF, Newline>>
    ELSE <<>>

\* LineDisplay::write_into: a blank context line is written without its sign.
\* (SignedWriteIntoAlways: the same without the blank-line branch.)
SignedWriteIntoAlways(line) == <<Atom("sign", sign(line))>> \o Txt(line.text)
SignedWriteInto(line) ==
    IF sign(line) = " " /\ line.text = <<NL>>
    THEN Txt(line.text)
    ELSE <<Atom("sign", sign(line))>> \o Txt(line.text)

LineDisplayWriteInto(line, color) ==
    (IF color THEN prefix(style(line)) ELSE <<>>)
    \o SignedWriteInto(line)
    \o (IF color THEN suffix(style(line)) ELSE <<>>)
    \o Marker(line)

\* impl Display for LineDisplay: the same, through the Formatter
SignedFmt(line) ==
    IF sign(line) = " " /\ line.text = <<NL>>
    THEN Txt(line.text)
    ELSE <<Atom("sign", sign(line))>> \o Txt(line.text)

LineDisplayFmt(line, color) ==
    (IF color THEN prefix(style(line)) ELSE <<>>)
    \o SignedFmt(line)
    \o (IF color THEN suffix(style(line)) ELSE <<>>)
    \o Marker(line)

\* the header part of HunkDisplay::write_into
HeaderWriteInto(h, color) ==
    (IF color THEN prefix("hunk_header") ELSE <<>>)
    \o <<Atom("lit", "@@ -"), Atom("lit", "old_range"), Atom("lit", " +"),
         Atom("lit", "new_range"), Atom("lit", " @@")>>
    \o (IF color THEN suffix("hunk_header") ELSE <<>>)
    \o (IF h.function_context # "None"
        THEN <<Atom("lit", " ")>>
             \o (IF color THEN prefix("function_context") ELSE <<>>)
             \o <<Atom("lit", " "), Atom("ctx", h.function_context)>>
             \o (IF color THEN suffix("function_context") ELSE <<>>)
        ELSE <<>>)
    \o <<Newline>>

\* the header part of HunkDisplay::fmt
HeaderFmt(h, color) ==
    (IF color THEN prefix("hunk_header") ELSE <<>>)
    \o <<Atom("lit", "@@ -"), Atom("lit", "old_range"), Atom("lit", " +"),
         Atom("lit", "new_range"), Atom("lit", " @@")>>
    \o (IF color THEN suffix("hunk_header") ELSE <<>>)
    \o (IF h.function_context # "None"
        THEN <<Atom("lit", " ")>>
             \o (IF color THEN prefix("function_context") ELSE <<>>)
             \o <<Atom("lit", " "), Atom("ctx", h.function_context)>>
             \o (IF color THEN suffix("function_context") ELSE <<>>)
        ELSE <<>>)
    \o <<Newline>>

\* group.split_inclusive('\n'): the pieces of a group, each ending after a "\n"
RECURSIVE split_inclusive(_)
split_inclusive(g) ==
    IF g = <<>> THEN <<>>
    ELSE LET n == find(g, NL)
         IN IF n = None THEN <<g>>
            ELSE <<SplitHead(g, n + 1)>> \o split_inclusive(SplitTail(g, n + 1))

\* *start_line = g.ends_with('\n')
\* (AlwaysStartLine: the flag never cleared.)
AlwaysStartLine(g) == TRUE
StartLineAfter(g) == ends_with_newline(g)

\* the render closure over the pieces of the groups of one range.  A painter
\* "none" writes the piece as it is, any other is a Style painting it.
\* Returns the atoms written and the start_line flag it leaves.
RECURSIVE RenderPieces(_, _, _, _)
RenderPieces(pieces, start_line, line_start, painter) ==
    IF pieces = <<>> THEN [atoms |-> <<>>, start_line |-> start_line]
    ELSE LET g == Head(pieces)
             r == RenderPieces(Tail(pieces), StartLineAfter(g), line_start, painter)
         IN [atoms |-> (IF start_line THEN line_start ELSE <<>>)
                       \o (IF painter = "none" THEN Txt(g) ELSE paint(painter, Txt(g)))
                       \o r.atoms,
             start_line |-> r.start_line]

RECURSIVE PiecesOf(_)
PiecesOf(gs) == IF gs = <<>> THEN <<>> ELSE split_inclusive(Head(gs)) \o PiecesOf(Tail(gs))

\* groups.iter().skip(*idx).take(range.len())
SkipTake(gs, idx, n) ==
    SubSeq(gs, idx + 1, IF idx + n > Len(gs) THEN Len(gs) ELSE idx + n)

render(gs, idx, start_line, len, line_start, painter) ==
    RenderPieces(PiecesOf(SkipTake(gs, idx, len)), start_line, line_start, painter)

\* ------------------------------------------------ the diff of the groups
\* myers::diff followed by cleanup::compact, over the word-groups of the two
\* blocks: a shortest edit script, its ranges in order and covering both
\* sides, no two neighbours of the same variant.  A range is [tag, len].
Range(t, n) == [tag |-> t, len |-> n]

Min(a, b) == IF a < b THEN a ELSE b

RECURSIVE Scripts(_, _, _, _, _)
Scripts(x, y, i, j, prev) ==
    IF i = Len(x) /\ j = Len(y) THEN {<<>>}
    ELSE
      UNION ({ {<<Range("Equal", n)>> \o r : r \in Scripts(x, y, i + n, j + n, "Equal")} :
                 n \in {m \in 1..Min(Len(x) - i, Len(y) - j) :
                          /\ prev # "Equal"
                          /\ \A t \in 1..m : x[i + t] = y[j + t]} }
             \cup
             { {<<Range("Delete", n)>> \o r : r \in Scripts(x, y, i + n, j, "Delete")} :
                 n \in {m \in 1..(Len(x) - i) : prev # "Delete"} }
             \cup
             { {<<Range("Insert", n)>> \o r : r \in Scripts(x, y, i, j + n, "Insert")} :
                 n \in {m \in 1..(Len(y) - j) : prev # "Insert"} })

RECURSIVE Cost(_)
Cost(script) ==
    IF script = <<>> THEN 0
    ELSE (IF Head(script).tag = "Equal" THEN 0 ELSE Head(script).len) + Cost(Tail(script))

Solutions(x, y) ==
    LET all == Scripts(x, y, 0, 0, "none")
    IN {r \in all : \A q \in all : Cost(r) <= Cost(q)}

\* --------------------------------------------------------------- the hunks
\* Most lines of a hunk handed to the formatter.
MaxLines == 3

A_NL == <<"a", NL>>
BLANK == <<NL>>
A_EOF == <<"a">>
LineTexts == {A_NL, BLANK, A_EOF}
LineKinds == {"Context", "Delete", "Insert"}
Lines == [kind : LineKinds, text : LineTexts]

RECURSIVE SeqsUpTo(_, _)
SeqsUpTo(S, n) ==
    IF n = 0 THEN {<<>>}
    ELSE LET shorter == SeqsUpTo(S, n - 1)
         IN shorter \cup {Append(q, x) : q \in shorter, x \in S}

\* The lines of one side of the hunk: the old side holds the Context and
\* Delete lines, the new side the Context and Insert lines
Side(ls, kind) == SelectSeq(ls, LAMBDA l : l.kind \in {"Context", kind})

\* Lines come from LineIter: only the last line of a side may lack its "\n".
\* In a run of changed lines the deleted lines come before the inserted ones.
WellFormedLines(ls) ==
    /\ ls # <<>>
    /\ \A kind \in {"Delete", "Insert"} :
         \A n \in 1..(Len(Side(ls, kind)) - 1) : ends_with_newline(Side(ls, kind)[n].text)
    /\ \A n \in 1..(Len(ls) - 1) : ~(ls[n].kind = "Insert" /\ ls[n + 1].kind = "Delete")

\* One block per maximal run of lines of one kind: the concatenation of the
\* run's texts (Hunk::originals for Delete, Hunk::modifieds for Insert)
RECURSIVE RunBlocks(_, _, _)
RunBlocks(ls, kind, open) ==
    IF ls = <<>> THEN (IF open = <<>> THEN <<>> ELSE <<open>>)
    ELSE IF Head(ls).kind = kind THEN RunBlocks(Tail(ls), kind, open \o Head(ls).text)
    ELSE (IF open = <<>> THEN <<>> ELSE <<open>>) \o RunBlocks(Tail(ls), kind, <<>>)

Blocks(ls, kind) == RunBlocks(ls, kind, <<>>)

\* The blocks as captured, with one missing or with one too many
BlockVariants(blocks) ==
    {blocks, Append(blocks, A_NL)}
    \cup (IF blocks = <<>> THEN {} ELSE {SubSeq(blocks, 1, Len(blocks) - 1)})

Canonical(h) ==
    /\ h.originals = Blocks(h.lines, "Delete")
    /\ h.modifieds = Blocks(h.lines, "Insert")

\* ------------------------------------------------------------------ state
VARIABLES
    \* a TokenIter
    text,        \* the text the iterator was built over
    iter,        \* which boundary function the TokenIter holds (self.1)
    rest,        \* TokenIter.0: the text not yet consumed
    toks,        \* the tokens next() has returned so far, in order
    done,        \* next() has returned None
    \* a HunkDisplay being rendered
    hunk,        \* [lines, originals, modifieds, function_context]
    with_color,  \* PatchFormatter::with_color
    path,        \* "write_into" (the byte sink) or "fmt" (Display)
    pc,          \* "idle", "header", "lines", "deleted", "inserted", "done", "panic"
    out,         \* the atoms written so far
    k,           \* the lines of the hunk already visited by the for loop
    is_context,  \* the is_context flag of HunkDisplay::fmt
    original,    \* blocks taken from the originals iterator
    modified,    \* blocks taken from the modifieds iterator
    deleted,     \* the groups of the deleted block
    inserted,    \* the groups of the inserted block
    solution,    \* the compacted diff of the two group sequences
    d,           \* ranges of the solution already visited in this part
    i,           \* the idx of the render closure
    nl,          \* the start_line flag of the render closure
    part_from,   \* Len(out) when this part's i and nl were initialised
    err          \* the panic message, "" when none

tokVars == <<text, iter, rest, toks, done>>
intraVars == <<deleted, inserted, solution, d, i, nl, part_from>>
fmtVars == <<hunk, with_color, path, pc, out, k, is_context, original, modified,
             deleted, inserted, solution, d, i, nl, part_from, err>>
vars == <<tokVars, fmtVars>>

Texts == {Encode(cs) : cs \in SeqsUpTo(Chars, MaxChars)}

TokIdle ==
    /\ text = <<>>
    /\ iter = "none"
    /\ rest = <<>>
    /\ toks = <<>>
    /\ done = TRUE

FmtIdle ==
    /\ hunk = [lines |-> <<>>, originals |-> <<>>, modifieds |-> <<>>,
               function_context |-> "None"]
    /\ with_color = FALSE
    /\ path = "none"
    /\ pc = "idle"
    /\ out = <<>>
    /\ k = 0
    /\ is_context = TRUE
    /\ original = 0
    /\ modified = 0
    /\ deleted = <<>>
    /\ inserted = <<>>
    /\ solution = <<>>
    /\ d = 0
    /\ i = 0
    /\ nl = TRUE
    /\ part_from = 0
    /\ err = ""

\* ---------------------------------------------------------- the tokenizer
Init ==
    /\ text \in Texts
    /\ iter \in {"LineIter", "GroupIter", "test_lines"}
    /\ rest = text
    /\ toks = <<>>
    /\ done = FALSE
    /\ FmtIdle

\* TokenIter::next; an underflowing boundary computation aborts the call
TokenIterNext(m) ==
    /\ iter = m
    /\ ~done
    /\ Len(toks) < MaxToks
    /\ IF rest = <<>>
       THEN /\ done' = TRUE
            /\ UNCHANGED <<rest, toks>>
       ELSE LET idx == Boundary(m, rest)
                e == IF idx = None THEN Len(rest) ELSE idx
            IN /\ idx # Underflow
               /\ toks' = Append(toks, SplitHead(rest, e))
               /\ rest' = SplitTail(rest, e)
               /\ UNCHANGED done
    /\ UNCHANGED <<text, iter>>
    /\ UNCHANGED fmtVars

LineIterNext == TokenIterNext("LineIter")
GroupIterNext == TokenIterNext("GroupIter")
TestLinesNext == TokenIterNext("test_lines")

Next == LineIterNext \/ GroupIterNext \/ TestLinesNext

Spec == Init /\ [][Next]_vars

\* ---------------------------------------------------------- the formatter
HunkLines == {ls \in SeqsUpTo(Lines, MaxLines) : WellFormedLines(ls)}

\* Only the coloured Display rendering reads originals and modifieds: the
\* miscounted blocks are tried there alone, one of the two at a time.
FmtInit ==
    /\ TokIdle
    /\ with_color \in BOOLEAN
    /\ path \in {"write_into", "fmt"}
    /\ \E ls \in HunkLines, fc \in {"None", "ctx"} :
         \E o \in BlockVariants(Blocks(ls, "Delete")), m \in BlockVariants(Blocks(ls, "Insert")) :
           /\ o = Blocks(ls, "Delete") \/ m = Blocks(ls, "Insert")
           /\ (with_color /\ path = "fmt")
              \/ (o = Blocks(ls, "Delete") /\ m = Blocks(ls, "Insert"))
           /\ hunk = [lines |-> ls, originals |-> o, modifieds |-> m,
                      function_context |-> fc]
    /\ pc = "header"
    /\ out = <<>>
    /\ k = 0
    /\ is_context = TRUE
    /\ original = 0
    /\ modified = 0
    /\ deleted = <<>>
    /\ inserted = <<>>
    /\ solution = <<>>
    /\ d = 0
    /\ i = 0
    /\ nl = TRUE
    /\ part_from = 0
    /\ err = ""

\* HunkDisplay::write_into, up to its for loop
WriteIntoHeader ==
    /\ pc = "header" /\ path = "write_into"
    /\ out' = out \o HeaderWriteInto(hunk, with_color)
    /\ pc' = "lines"
    /\ UNCHANGED <<hunk, with_color, path, k, is_context, original, modified, err>>
    /\ UNCHANGED intraVars
    /\ UNCHANGED tokVars

\* one turn of the for loop of HunkDisplay::write_into
WriteIntoLine ==
    /\ pc = "lines" /\ path = "write_into"
    /\ k < Len(hunk.lines)
    /\ out' = out \o LineDisplayWriteInto(hunk.lines[k + 1], with_color)
    /\ k' = k + 1
    /\ UNCHANGED <<hunk, with_color, path, pc, is_context, original, modified, err>>
    /\ UNCHANGED intraVars
    /\ UNCHANGED tokVars

\* HunkDisplay::write_into returns Ok(())
WriteIntoDone ==
    /\ pc = "lines" /\ path = "write_into"
    /\ k = Len(hunk.lines)
    /\ pc' = "done"
    /\ UNCHANGED <<hunk, with_color, path, out, k, is_context, original, modified, err>>
    /\ UNCHANGED intraVars
    /\ UNCHANGED tokVars

\* HunkDisplay::fmt, up to its for loop
FmtHeader ==
    /\ pc = "header" /\ path = "fmt"
    /\ out' = out \o HeaderFmt(hunk, with_color)
    /\ pc' = "lines"
    /\ UNCHANGED <<hunk, with_color, path, k, is_context, original, modified, err>>
    /\ UNCHANGED intraVars
    /\ UNCHANGED tokVars

\* if !self.f.with_color { write the line; continue }
FmtLinePlain ==
    /\ pc = "lines" /\ path = "fmt"
    /\ k < Len(hunk.lines)
    /\ ~with_color
    /\ out' = out \o LineDisplayFmt(hunk.lines[k + 1], with_color)
    /\ k' = k + 1
    /\ UNCHANGED <<hunk, with_color, path, pc, is_context, original, modified, err>>
    /\ UNCHANGED intraVars
    /\ UNCHANGED tokVars

\* if let Line::Context(_) = line { is_context = true; write the line; continue }
FmtLineContext ==
    /\ pc = "lines" /\ path = "fmt"
    /\ k < Len(hunk.lines)
    /\ with_color
    /\ hunk.lines[k + 1].kind = "Context"
    /\ is_context' = TRUE
    /\ out' = out \o LineDisplayFmt(hunk.lines[k + 1], with_color)
    /\ k' = k + 1
    /\ UNCHANGED <<hunk, with_color, path, pc, original, modified, err>>
    /\ UNCHANGED intraVars
    /\ UNCHANGED tokVars

\* a changed line that does not follow a context line: nothing is written
FmtLineSkip ==
    /\ pc = "lines" /\ path = "fmt"
    /\ k < Len(hunk.lines)
    /\ with_color
    /\ hunk.lines[k + 1].kind # "Context"
    /\ ~is_context
    /\ k' = k + 1
    /\ UNCHANGED <<hunk, with_color, path, pc, out, is_context, original, modified, err>>
    /\ UNCHANGED intraVars
    /\ UNCHANGED tokVars

\* if is_context { ... }: the first changed line after the header or a context
\* line takes the next block of each side and diffs their groups
FmtIntraline ==
    /\ pc = "lines" /\ path = "fmt"
    /\ k < Len(hunk.lines)
    /\ with_color
    /\ hunk.lines[k + 1].kind # "Context"
    /\ is_context
    /\ is_context' = FALSE
    /\ IF original >= Len(hunk.originals)
       THEN /\ pc' = "panic"
            /\ err' = "expected to find a deleted string"
            /\ UNCHANGED <<original, modified>>
            /\ UNCHANGED intraVars
       ELSE IF modified >= Len(hunk.modifieds)
       THEN /\ pc' = "panic"
            /\ err' = "expected to find an inserted string"
            /\ original' = original + 1
            /\ UNCHANGED modified
            /\ UNCHANGED intraVars
       ELSE /\ original' = original + 1
            /\ modified' = modified + 1
            /\ deleted' = Groups(hunk.originals[original + 1])
            /\ inserted' = Groups(hunk.modifieds[modified + 1])
            /\ solution' \in Solutions(deleted', inserted')
            /\ d' = 0
            /\ i' = 0
            /\ nl' = TRUE
            /\ part_from' = Len(out)
            /\ pc' = "deleted"
            /\ UNCHANGED err
    /\ UNCHANGED <<hunk, with_color, path, out, k>>
    /\ UNCHANGED tokVars

\* the marker a part writes at the start of a line: Style::paint of the sign
LineStart(part) ==
    IF part = "deleted" THEN paint("delete", <<Atom("sign", "-")>>)
    ELSE paint("insert", <<Atom("sign", "+")>>)

\* one turn of a for loop over the solution: Equal ranges are written as they
\* are, the part's own ranges painted, the other part's ranges passed over
RenderRange(part, groups, own, painter) ==
    /\ pc = part
    /\ d < Len(solution)
    /\ LET range == solution[d + 1] IN
       IF range.tag \in {"Equal", own}
       THEN LET r == render(groups, i, nl, range.len, LineStart(part),
                            IF range.tag = "Equal" THEN "none" ELSE painter)
            IN /\ out' = out \o r.atoms
               /\ nl' = r.start_line
               /\ i' = i + range.len
       ELSE UNCHANGED <<out, i, nl>>
    /\ d' = d + 1
    /\ UNCHANGED <<hunk, with_color, path, pc, k, is_context, original, modified, err>>
    /\ UNCHANGED <<deleted, inserted, solution, part_from>>
    /\ UNCHANGED tokVars

FmtRenderDeleted == RenderRange("deleted", deleted, "Delete", "delete")

\* let mut i = 0; let mut nl = true; before the inserted part
FmtBeginInserted ==
    /\ pc = "deleted"
    /\ d = Len(solution)
    /\ pc' = "inserted"
    /\ d' = 0
    /\ i' = 0
    /\ nl' = TRUE
    /\ part_from' = Len(out)
    /\ UNCHANGED <<hunk, with_color, path, out, k, is_context, original, modified, err>>
    /\ UNCHANGED <<deleted, inserted, solution>>
    /\ UNCHANGED tokVars

FmtRenderInserted == RenderRange("inserted", inserted, "Insert", "insert")

\* the end of the if is_context block: on to the next line
FmtEndIntraline ==
    /\ pc = "inserted"
    /\ d = Len(solution)
    /\ pc' = "lines"
    /\ k' = k + 1
    /\ UNCHANGED <<hunk, with_color, path, out, is_context, original, modified, err>>
    /\ UNCHANGED intraVars
    /\ UNCHANGED tokVars

\* HunkDisplay::fmt returns Ok(())
FmtDone ==
    /\ pc = "lines" /\ path = "fmt"
    /\ k = Len(hunk.lines)
    /\ pc' = "done"
    /\ UNCHANGED <<hunk, with_color, path, out, k, is_context, original, modified, err>>
    /\ UNCHANGED intraVars
    /\ UNCHANGED tokVars

FmtNext ==
    \/ WriteIntoHeader
    \/ WriteIntoLine
    \/ WriteIntoDone
    \/ FmtHeader
    \/ FmtLinePlain
    \/ FmtLineContext
    \/ FmtLineSkip
    \/ FmtIntraline
    \/ FmtRenderDeleted
    \/ FmtBeginInserted
    \/ FmtRenderInserted
    \/ FmtEndIntraline
    \/ FmtDone

FmtSpec == FmtInit /\ [][FmtNext]_vars

\* ================================================================ claims
Strip(atoms) == SelectSeq(atoms, LAMBDA a : a.k # "esc")
Last(q) == q[Len(q)]
Count(q, P(_)) == Cardinality({p \in 1..Len(q) : P(q[p])})
HasPrefix(q, pre) == Len(q) >= Len(pre) /\ SubSeq(q, 1, Len(pre)) = pre

\* ---------------------------------------------------------------- C1
\* C1: LineIter splits a text after each "\n": the tokens yielded so far
\* followed by the remaining text are the input, every token is non-empty,
\* has no "\n" before its last byte, and ends with "\n" unless it is the
\* final fragment; once the iterator is exhausted the tokens concatenate to
\* the input, and an empty input yields no token.
C1_LineIterSplits ==
    iter = "LineIter" =>
      /\ Concat(toks) \o rest = text
      /\ \A n \in 1..Len(toks) :
           /\ toks[n] # <<>>
           /\ \A p \in 1..(Len(toks[n]) - 1) : toks[n][p] # NL
           /\ (n < Len(toks) \/ rest # <<>>) => ends_with_newline(toks[n])
      /\ done => Concat(toks) = text
      /\ text = <<>> => toks = <<>>

C1_Witness ==
    /\ iter = "LineIter" /\ done
    /\ Len(toks) = 3
    /\ ends_with_newline(toks[1])
    /\ ~ends_with_newline(toks[3])

\* ---------------------------------------------------------------- C2
\* The characters of a text (each named by its first byte)
Decode(s) == SelectSeq(s, LAMBDA b : ~IsContinuation(b))

\* The length of the longest prefix of cs whose characters all satisfy P
LongestPrefix(cs, P(_)) ==
    CHOOSE n \in 0..Len(cs) :
      /\ \A p \in 1..n : P(cs[p])
      /\ n = Len(cs) \/ ~P(cs[n + 1])

\* The group the fixed-priority rules give at the start of a non-empty text
RuleGroup(s) ==
    LET cs == Decode(s)
        c == cs[1]
        InNumber(x) == is_numeric(x) \/ x = "."
        InWord(x) == is_alphanumeric(x) \/ is_punctuation_connector(x)
        number == LongestPrefix(cs, InNumber)
        trimmed == CHOOSE n \in 1..number :
                     /\ is_numeric(cs[n])
                     /\ \A p \in (n + 1)..number : cs[p] = "."
    IN IF is_numeric(c) THEN Encode(SubSeq(cs, 1, trimmed))
       ELSE IF InWord(c) THEN Encode(SubSeq(cs, 1, LongestPrefix(cs, InWord)))
       ELSE IF is_whitespace(c) THEN Encode(SubSeq(cs, 1, LongestPrefix(cs, is_whitespace)))
       ELSE Utf8(c)

\* C2: every group GroupIter yields is the group the fixed-priority rules
\* (number without its trailing dots, else word, else whitespace, else the
\* single character) give at its position; the groups followed by the
\* remaining text are the input and no group ends inside a character.
C2_GroupIterRules ==
    iter = "GroupIter" =>
      /\ Concat(toks) \o rest = text
      /\ \A n \in 1..Len(toks) :
           toks[n] = RuleGroup(Concat(SubSeq(toks, n, Len(toks))) \o rest)
      /\ rest = <<>> \/ ~IsContinuation(rest[1])
      /\ done => Concat(toks) = text

C2_Witness ==
    /\ iter = "GroupIter" /\ done
    /\ text = <<"1", ".", "1", ".">>
    /\ toks = << <<"1", ".", "1">>, <<".">> >>

\* --------------------------------------------------------------- C10
\* C10: for each of the three boundary functions, next returns None only
\* when the remaining text is empty, every token it yields is non-empty, so
\* no more than len(text) tokens are yielded, and the backward walk of
\* GroupIter never moves before position 0.
C10_IterationFinite ==
    /\ \A n \in 1..Len(toks) : toks[n] # <<>>
    /\ Len(toks) <= Len(text)
    /\ done => rest = <<>>
    /\ rest # <<>> => Boundary(iter, rest) # Underflow

\* ---------------------------------------------------------------- C3
LacksNewline(line) == ~ends_with_newline(line.text)
IsMarker(a) == a = NO_NEWLINE_AT_EOF

\* C3: in a finished rendering of a hunk (either mode, either path; the
\* hunk's blocks as hunk assembly captures them), text that stops without a
\* newline is followed at once by a line break and the no-newline marker
\* line, and there is one marker line per hunk line lacking its newline.
C3_MarkerFollows ==
    (pc = "done" /\ Canonical(hunk)) =>
      LET s == Strip(out) IN
      /\ \A p \in 1..Len(s) :
           (/\ s[p].k = "txt" /\ s[p].s # NL
            /\ p = Len(s) \/ s[p + 1].k # "txt")
           => /\ p + 2 <= Len(s)
              /\ s[p + 1] = Newline
              /\ s[p + 2] = NO_NEWLINE_AT_EOF
      /\ Count(s, IsMarker) = Count(hunk.lines, LacksNewline)

\* ---------------------------------------------------------------- C4
\* A step of a rendering that writes one line through LineDisplay
LineDisplayStep == WriteIntoLine \/ FmtLinePlain \/ FmtLineContext

\* C4 as stated: every line written through LineDisplay is its prefix
\* character followed by its text, blank lines included.
C4_PrefixOnEveryLine ==
    [][LineDisplayStep =>
         LET line == hunk.lines[k + 1]
             w == Strip(SubSeq(out', Len(out) + 1, Len(out')))
         IN HasPrefix(w, <<Atom("sign", sign(line))>> \o Txt(line.text))]_vars

\* C4 amended: every line written through LineDisplay (byte sink or Display)
\* is, styling aside, its prefix character followed by its text unchanged,
\* except a Context line whose text is a lone newline, which is written as
\* that newline alone, without the prefix.
C4_PrefixUnlessBlankContext ==
    [][LineDisplayStep =>
         LET line == hunk.lines[k + 1]
             w == Strip(SubSeq(out', Len(out) + 1, Len(out')))
         IN IF line.kind = "Context" /\ line.text = <<NL>>
            THEN w = Txt(line.text)
            ELSE HasPrefix(w, <<Atom("sign", sign(line))>> \o Txt(line.text))]_vars

C4_Witness ==
    /\ pc = "lines" /\ k >= 1
    /\ hunk.lines[k] = [kind |-> "Context", text |-> BLANK]
    /\ Last(out) = Atom("txt", NL)
    /\ out[Len(out) - 1].k # "sign"

\* ---------------------------------------------------------------- C5
PlainHeader(h) ==
    <<Atom("lit", "@@ -"), Atom("lit", "old_range"), Atom("lit", " +"),
      Atom("lit", "new_range"), Atom("lit", " @@")>>
    \o (IF h.function_context # "None"
        THEN <<Atom("lit", " "), Atom("ctx", h.function_context)>>
        ELSE <<>>)
    \o <<Newline>>

\* C5: in plain mode, on either path, the header written is
\* "@@ -<old_range> +<new_range> @@", then one space and the label when the
\* hunk has one, then a newline.
C5_PlainHeader ==
    (pc \in {"lines", "done"} /\ ~with_color) =>
      HasPrefix(out, PlainHeader(hunk))

\* ---------------------------------------------------------------- C6
RECURSIVE PlainLines(_)
PlainLines(ls) ==
    IF ls = <<>> THEN <<>> ELSE LineDisplayFmt(Head(ls), FALSE) \o PlainLines(Tail(ls))

\* The plain-mode Display rendering of a hunk
PlainRendering(h) == HeaderFmt(h, FALSE) \o PlainLines(h.lines)

\* C6: for a hunk holding one block per Delete-run and per Insert-run, the
\* colour-mode Display rendering ends normally and, its escapes removed, is
\* the plain-mode rendering of the hunk.
C6_StylingInert ==
    (with_color /\ path = "fmt" /\ Canonical(hunk) /\ pc \in {"done", "panic"}) =>
      /\ pc = "done"
      /\ Strip(out) = PlainRendering(hunk)

\* ---------------------------------------------------------------- C7
\* The maximal run of changed lines that starts at line n
RECURSIVE RunFrom(_, _)
RunFrom(ls, n) ==
    IF n > Len(ls) \/ ls[n].kind = "Context" THEN <<>>
    ELSE <<ls[n]>> \o RunFrom(ls, n + 1)

ReplaceRun(run) ==
    /\ \E n \in 1..Len(run) : run[n].kind = "Delete"
    /\ \E n \in 1..Len(run) : run[n].kind = "Insert"

\* C7: in colour mode the groups are diffed only for a run holding both
\* Delete and Insert lines; a run of Delete lines alone or of Insert lines
\* alone is rendered line by line, so its rendering does not abort.
C7_RediffOnlyForReplace ==
    (with_color /\ path = "fmt" /\ Canonical(hunk)) =>
      /\ pc \in {"deleted", "inserted"} => ReplaceRun(RunFrom(hunk.lines, k + 1))
      /\ pc # "panic"

\* ---------------------------------------------------------------- C8
IsSign(a) == a.k = "sign"
IsNewline(a) == a.k = "txt" /\ a.s = NL

\* What the current part of the intraline rendering has written, no escapes
Part == Strip(SubSeq(out, part_from + 1, Len(out)))

C9_MiscountAborts ==
    (with_color /\ path = "fmt" /\ pc = "done") =>
      /\ Len(hunk.originals) = Len(Blocks(hunk.lines, "Delete"))
      /\ Len(hunk.modifieds) = Len(Blocks(hunk.lines, "Insert"))

====
